---- MODULE Spec2Model ----
(***************************************************************************)
(* Model of the Interactive_Map dashboard (src/app.js).                    *)
(*                                                                         *)
(* JavaScript values are modelled as follows.                              *)
(*   - a string is a sequence of one-character strings;                    *)
(*   - undefined and null are the one-element sequences <<"undefined">>    *)
(*     and <<"null">>, which no string of characters equals;               *)
(*   - a number is a record [kind, m, e]: kind "finite" stands for the     *)
(*     value m * 10^e (m not divisible by 10, zero is m = 0, e = 0), kind  *)
(*     "NaN" and kind "Infinity" (m = 1 or -1) are the non-finite values.  *)
(*     Rounding to the nearest double is abstracted: a finite value is     *)
(*     kept exact, and a literal beyond the double range is Infinity.      *)
(*   - an object is a record [keys, val]: keys is the sequence of the own  *)
(*     property names in insertion order and val maps each to its value.   *)
(***************************************************************************)
EXTENDS Integers, Sequences, FiniteSets, TLC

(***************************************************************************)
(* Bounds of the model.                                                    *)
(***************************************************************************)
MaxLen == 3        \* longest enumerated argument of toNum
MaxText == 5       \* longest enumerated CSV text
MaxRows == 3       \* longest enumerated row sequence
MaxCalls == 2      \* calls of computeCategoryTotals on one row sequence
MaxBuilds == 3     \* layers built or being built, over all overlays

(***************************************************************************)
(* Strings.                                                                *)
(***************************************************************************)
undefined == <<"undefined">>
null == <<"null">>

WhiteSpace == {" ", "\t", "\n", "\r"}

LowerLetters == <<"a","b","c","d","e","f","g","h","i","j","k","l","m",
                  "n","o","p","q","r","s","t","u","v","w","x","y","z">>
UpperLetters == <<"A","B","C","D","E","F","G","H","I","J","K","L","M",
                  "N","O","P","Q","R","S","T","U","V","W","X","Y","Z">>

UpperChar(c) ==
    IF \E i \in 1..Len(LowerLetters) : LowerLetters[i] = c
    THEN UpperLetters[CHOOSE i \in 1..Len(LowerLetters) : LowerLetters[i] = c]
    ELSE c

\* String.prototype.toUpperCase
toUpperCase(s) == [i \in 1..Len(s) |-> UpperChar(s[i])]

RECURSIVE trimStart(_)
trimStart(s) ==
    IF s = <<>> THEN s
    ELSE IF Head(s) \in WhiteSpace THEN trimStart(Tail(s)) ELSE s

RECURSIVE trimEnd(_)
trimEnd(s) ==
    IF s = <<>> THEN s
    ELSE IF s[Len(s)] \in WhiteSpace THEN trimEnd(SubSeq(s, 1, Len(s) - 1)) ELSE s

\* String.prototype.trim
trim(s) == trimEnd(trimStart(s))

\* String(v ?? "")
StringOrEmpty(v) == IF v = undefined \/ v = null THEN <<>> ELSE v

\* first index of s holding a character of set cs, 0 when there is none
IndexOf(s, cs) ==
    IF \E i \in 1..Len(s) : s[i] \in cs
    THEN CHOOSE i \in 1..Len(s) : s[i] \in cs /\ \A j \in 1..(i - 1) : s[j] \notin cs
    ELSE 0

(***************************************************************************)
(* Numbers.                                                                *)
(***************************************************************************)
NaN == [kind |-> "NaN", m |-> 0, e |-> 0]
Infinity(neg) == [kind |-> "Infinity", m |-> IF neg THEN -1 ELSE 1, e |-> 0]

RECURSIVE Fin(_, _)
Fin(m, e) ==
    IF m = 0 THEN [kind |-> "finite", m |-> 0, e |-> 0]
    ELSE IF m % 10 = 0 THEN Fin(m \div 10, e + 1)
    ELSE [kind |-> "finite", m |-> m, e |-> e]

Zero == Fin(0, 0)

RECURSIVE Pow(_, _)
Pow(b, n) == IF n = 0 THEN 1 ELSE b * Pow(b, n - 1)

RECURSIVE NumDigits(_)
NumDigits(n) == IF n < 10 THEN 1 ELSE 1 + NumDigits(n \div 10)

\* a + b of two finite numbers
Add(a, b) ==
    LET lo == IF a.e < b.e THEN a.e ELSE b.e
    IN  Fin(a.m * Pow(10, a.e - lo) + b.m * Pow(10, b.e - lo), lo)

\* Number.isFinite
isFinite(n) == n.kind = "finite"

DecDigits == <<"0","1","2","3","4","5","6","7","8","9">>
HexDigits == DecDigits \o <<"a","b","c","d","e","f">>

\* value of digit character c in the digit sequence ds (upper case folded)
DigitOf(ds, c) ==
    (CHOOSE i \in 1..Len(ds) : toUpperCase(<<ds[i]>>) = toUpperCase(<<c>>)) - 1

IsDigitIn(ds, c) == \E i \in 1..Len(ds) : toUpperCase(<<ds[i]>>) = toUpperCase(<<c>>)

AllDigits(ds, s) == \A i \in 1..Len(s) : IsDigitIn(ds, s[i])

\* value of the digit string s in the base Len(ds)
RECURSIVE DigitsValue(_, _)
DigitsValue(ds, s) ==
    IF s = <<>> THEN 0
    ELSE DigitsValue(ds, SubSeq(s, 1, Len(s) - 1)) * Len(ds) + DigitOf(ds, s[Len(s)])

\* the double nearest to mant * 10^ex for a non-negative mant: Infinity above
\* the largest double, 1.7976931348623157e308
Magnitude(neg, mant, ex) ==
    LET n == Fin(mant, ex)
        d == NumDigits(n.m)
        sci == d - 1 + n.e
        lead == IF d <= 9 THEN n.m * Pow(10, 9 - d) ELSE n.m \div Pow(10, d - 9)
    IN  IF sci > 308 \/ (sci = 308 /\ lead > 179769313)
        THEN Infinity(neg)
        ELSE Fin(IF neg THEN -(n.m) ELSE n.m, n.e)

\* StrUnsignedDecimalLiteral without "Infinity": digits [. [digits]] [exp] or
\* . digits [exp]
UnsignedDecimal(neg, s) ==
    LET ePos == IndexOf(s, {"e", "E"})
        mantS == IF ePos = 0 THEN s ELSE SubSeq(s, 1, ePos - 1)
        expS == IF ePos = 0 THEN <<>> ELSE SubSeq(s, ePos + 1, Len(s))
        expNeg == expS # <<>> /\ Head(expS) = "-"
        expD == IF expS # <<>> /\ Head(expS) \in {"+", "-"} THEN Tail(expS) ELSE expS
        dot == IndexOf(mantS, {"."})
        intS == IF dot = 0 THEN mantS ELSE SubSeq(mantS, 1, dot - 1)
        fracS == IF dot = 0 THEN <<>> ELSE SubSeq(mantS, dot + 1, Len(mantS))
        okExp == ePos = 0 \/ (expD # <<>> /\ AllDigits(DecDigits, expD))
        okMant == /\ AllDigits(DecDigits, intS)
                  /\ AllDigits(DecDigits, fracS)
                  /\ intS \o fracS # <<>>
        ex == IF ePos = 0 THEN 0
              ELSE IF expNeg THEN -DigitsValue(DecDigits, expD)
              ELSE DigitsValue(DecDigits, expD)
    IN  IF okExp /\ okMant
        THEN Magnitude(neg, DigitsValue(DecDigits, intS \o fracS), ex - Len(fracS))
        ELSE NaN

\* StrDecimalLiteral: an optional sign, then Infinity or an unsigned decimal
StrDecimalLiteral(s) ==
    LET signed == s # <<>> /\ Head(s) \in {"+", "-"}
        neg == s # <<>> /\ Head(s) = "-"
        body == IF signed THEN Tail(s) ELSE s
    IN  IF body = <<"I","n","f","i","n","i","t","y">> THEN Infinity(neg)
        ELSE UnsignedDecimal(neg, body)

\* NonDecimalIntegerLiteral: 0x, 0o or 0b and digits of that base, unsigned
IsNonDecimalPrefix(s) ==
    Len(s) >= 2 /\ s[1] = "0" /\ s[2] \in {"x", "X", "o", "O", "b", "B"}

NonDecimalIntegerLiteral(s) ==
    LET ds == IF s[2] \in {"x", "X"} THEN HexDigits
              ELSE IF s[2] \in {"o", "O"} THEN SubSeq(DecDigits, 1, 8)
              ELSE SubSeq(DecDigits, 1, 2)
        body == SubSeq(s, 3, Len(s))
    IN  IF body # <<>> /\ AllDigits(ds, body)
        THEN Magnitude(FALSE, DigitsValue(ds, body), 0)
        ELSE NaN

\* Number(s) of a string: StringToNumber
Number(s) ==
    LET t == trim(s)
    IN  IF t = <<>> THEN Zero
        ELSE IF IsNonDecimalPrefix(t) THEN NonDecimalIntegerLiteral(t)
        ELSE StrDecimalLiteral(t)

\* toNum returning Number(s) without the Number.isFinite test
toNumUnchecked(v) ==
    LET s == trim(StringOrEmpty(v))
    IN  IF s = <<>> \/ toUpperCase(s) = <<"N", "A">> THEN Zero ELSE Number(s)

\* toNum(v), src/app.js:49
toNum(v) ==
    LET s == trim(StringOrEmpty(v))
    IN  IF s = <<>> \/ toUpperCase(s) = <<"N", "A">> THEN Zero
        ELSE LET n == Number(s)
             IN  IF isFinite(n) THEN n ELSE Zero

\* normCounty without toUpperCase
normCountyKeepCase(v) == trim(StringOrEmpty(v))

\* normCounty(v), src/app.js:56
normCounty(v) == toUpperCase(trim(StringOrEmpty(v)))

(***************************************************************************)
(* Objects.  Property names that are array indices (which an object lists  *)
(* first) and names found on Object.prototype are outside the alphabets    *)
(* used here.                                                              *)
(***************************************************************************)
EmptyObject == [keys |-> <<>>, val |-> <<>>]

Range(f) == {f[i] : i \in DOMAIN f}

\* obj[k] = v
ObjSet(obj, k, v) ==
    IF k \in Range(obj.keys)
    THEN [obj EXCEPT !.val = [x \in DOMAIN obj.val |-> IF x = k THEN v ELSE obj.val[x]]]
    ELSE [keys |-> Append(obj.keys, k),
          val |-> [x \in Range(obj.keys) \cup {k} |-> IF x = k THEN v ELSE obj.val[x]]]

\* obj[k]
ObjGet(obj, k) == IF k \in Range(obj.keys) THEN obj.val[k] ELSE undefined

(***************************************************************************)
(* parseCSV.                                                               *)
(***************************************************************************)
\* String.prototype.split with a one-character separator
RECURSIVE Split(_, _)
Split(s, sep) ==
    LET i == IndexOf(s, {sep})
    IN  IF i = 0 THEN <<s>>
        ELSE <<SubSeq(s, 1, i - 1)>> \o Split(SubSeq(s, i + 1, Len(s)), sep)

\* a piece that was cut at \n loses the \r the pattern \r?\n matched with it
DropCR(piece) ==
    IF piece # <<>> /\ piece[Len(piece)] = "\r"
    THEN SubSeq(piece, 1, Len(piece) - 1) ELSE piece

\* String.prototype.split(/\r?\n/)
SplitLines(s) ==
    LET pieces == Split(s, "\n")
    IN  [k \in 1..Len(pieces) |->
            IF k < Len(pieces) THEN DropCR(pieces[k]) ELSE pieces[k]]

\* values[i], with the index counted from 1
At(values, i) == IF i \in 1..Len(values) THEN values[i] ELSE undefined

\* the cell taken untrimmed
CellValueUntrimmed(values, i) == StringOrEmpty(At(values, i))

\* (values[i] ?? "").trim()
CellValue(values, i) == trim(StringOrEmpty(At(values, i)))

\* headers.forEach((h, i) => obj[h] = (values[i] ?? "").trim()) from header i on
RECURSIVE ForEachHeader(_, _, _, _)
ForEachHeader(headers, values, i, obj) ==
    IF i > Len(headers) THEN obj
    ELSE ForEachHeader(headers, values, i + 1,
                       ObjSet(obj, headers[i], CellValue(values, i)))

\* the callback of lines.slice(1).map
RowOfLine(headers, line) == ForEachHeader(headers, Split(line, ","), 1, EmptyObject)

ParseHeaders(lines) ==
    LET hs == Split(lines[1], ",") IN [i \in 1..Len(hs) |-> trim(hs[i])]

\* parseCSV splitting the text as it came, without text.trim()
parseCSVUntrimmed(text) ==
    LET lines == SplitLines(text)
        headers == ParseHeaders(lines)
    IN  [k \in 1..(Len(lines) - 1) |-> RowOfLine(headers, lines[k + 1])]

parseCSV(text) ==
    LET lines == SplitLines(trim(text))
        headers == ParseHeaders(lines)
    IN  [k \in 1..(Len(lines) - 1) |-> RowOfLine(headers, lines[k + 1])]

(***************************************************************************)
(* Configuration: targetCounty and columnMap.                              *)
(***************************************************************************)
TargetCountyDecl == {<<"E","L","K">>, <<"M","A","R">>, <<"S","J">>}

\* the entries of columnMap, in declaration order
ColumnMapEntries ==
    << <<<<"p","r","o","t","e","i","n","s">>,
         <<"P","r","o","t","e","i","n","s"," ","L","B","S">>>>,
       <<<<"s","t","a","r","c","h">>,
         <<"S","t","a","r","c","h"," ","L","B","S">>>>,
       <<<<"v","e","g">>,
         <<"V","e","g"," ","L","B","S">>>>,
       <<<<"f","r","u","i","t">>,
         <<"F","r","u","i","t"," ","L","B","S">>>>,
       <<<<"b","a","k","e","d","_","g","o","o","d","s">>,
         <<"B","a","k","e","d"," ","G","o","o","d","s"," ","L","B","S">>>>,
       <<<<"d","a","i","r","y">>,
         <<"D","a","i","r","y"," ","L","B","S">>>>,
       <<<<"g","r","o","c","e","r","y">>,
         <<"G","r","o","c","e","r","y"," ","L","B","S">>>>,
       <<<<"i","n","d","i","v","i","d","u","a","l","_","m","e","a","l","_","l","b","s">>,
         <<"I","n","d","v","i","d"," ","M","e","a","l"," ","L","B","S">>>> >>

RECURSIVE ObjectOf(_, _)
ObjectOf(entries, obj) ==
    IF entries = <<>> THEN obj
    ELSE ObjectOf(Tail(entries), ObjSet(obj, Head(entries)[1], Head(entries)[2]))

ColumnMapDecl == ObjectOf(ColumnMapEntries, EmptyObject)

CountyColumn == <<"C","o","u","n","t","y">>
\* the names the claims and the enumerated rows use
proteins == <<"p","r","o","t","e","i","n","s">>
starch == <<"s","t","a","r","c","h">>
ProteinsLBS == <<"P","r","o","t","e","i","n","s"," ","L","B","S">>
StarchLBS == <<"S","t","a","r","c","h"," ","L","B","S">>

(***************************************************************************)
(* computeCategoryTotals.  cm is columnMap and tc is targetCounty as the   *)
(* call finds them.                                                        *)
(***************************************************************************)
\* for (const key in columnMap) totals[key] = 0, from key i on
RECURSIVE ZeroFrom(_, _, _)
ZeroFrom(keys, i, totals) ==
    IF i > Len(keys) THEN totals
    ELSE ZeroFrom(keys, i + 1, ObjSet(totals, keys[i], Zero))

\* the initialisation also reaching a key that columnMap does not declare
InitTotalsExtraKey(cm, totals) == ZeroFrom(Append(cm.keys, CountyColumn), 1, totals)

\* the keys of columnMap taken from the last declared to the first
InitTotalsBackwards(cm, totals) ==
    ZeroFrom([i \in 1..Len(cm.keys) |-> cm.keys[Len(cm.keys) + 1 - i]], 1, totals)

\* lines 77-78 on the object totals
InitTotals(cm, totals) == ZeroFrom(cm.keys, 1, totals)

\* the cell looked up under the category key instead of the column name
AddCellByKey(cm, totals, key, row) ==
    ObjSet(totals, key, Add(ObjGet(totals, key), toNum(ObjGet(row, key))))

\* the cell subtracted instead of added
AddCellSubtracting(cm, totals, key, row) ==
    LET n == toNum(ObjGet(row, cm.val[key]))
    IN  ObjSet(totals, key, Add(ObjGet(totals, key), Fin(-(n.m), n.e)))

\* totals[key] += toNum(row[colName])
AddCell(cm, totals, key, row) ==
    ObjSet(totals, key, Add(ObjGet(totals, key), toNum(ObjGet(row, cm.val[key]))))

\* for (const [key, colName] of Object.entries(columnMap)), from entry i on
RECURSIVE AddColumnsFrom(_, _, _, _)
AddColumnsFrom(cm, i, totals, row) ==
    IF i > Len(cm.keys) THEN totals
    ELSE AddColumnsFrom(cm, i + 1, AddCell(cm, totals, cm.keys[i], row), row)

\* the loop body without the targetCounty test
AddRowUnfiltered(cm, tc, totals, row) == AddColumnsFrom(cm, 1, totals, row)

\* the body of for (const row of rows), lines 80-87
AddRow(cm, tc, totals, row) ==
    LET county == normCounty(ObjGet(row, CountyColumn))
    IN  IF county \notin tc THEN totals
        ELSE AddColumnsFrom(cm, 1, totals, row)

RECURSIVE AddRowsFrom(_, _, _, _, _)
AddRowsFrom(cm, tc, rs, i, totals) ==
    IF i > Len(rs) THEN totals
    ELSE AddRowsFrom(cm, tc, rs, i + 1, AddRow(cm, tc, totals, rs[i]))

\* computeCategoryTotals(rows): the value of the object it returns
computeCategoryTotals(cm, tc, rs) ==
    AddRowsFrom(cm, tc, rs, 1, InitTotals(cm, EmptyObject))

(***************************************************************************)
(* drawPieChart and the chart-loading batch.                               *)
(***************************************************************************)
chartsConfig ==
    << [file |-> "2023_log.csv", canvasId |-> "pie2023",
        title |-> "2023 Category Mix (Total LBS)"],
       [file |-> "2024_log.csv", canvasId |-> "pie2024",
        title |-> "2024 Category Mix (Total LBS)"],
       [file |-> "2025_log.csv", canvasId |-> "pie2025",
        title |-> "2025 Category Mix (Total LBS)"] >>

\* String.prototype.replaceAll with one-character pattern and replacement
replaceAll(s, from, to) == [i \in 1..Len(s) |-> IF s[i] = from THEN to ELSE s[i]]

\* x.value > 0
IsPositive(n) == n.m > 0

\* the configuration handed to new Chart(ctx, ...) on the canvas canvasId
drawPieChart(canvasId, title, totals) ==
    LET labels == [i \in 1..Len(totals.keys) |->
                      toUpperCase(replaceAll(totals.keys[i], "_", " "))]
        data == [i \in 1..Len(totals.keys) |-> totals.val[totals.keys[i]]]
        pairs == [i \in 1..Len(labels) |-> [label |-> labels[i], value |-> data[i]]]
        filtered == SelectSeq(pairs, LAMBDA x : IsPositive(x.value))
    IN  [canvasId |-> canvasId,
         title |-> title,
         labels |-> [i \in 1..Len(filtered) |-> filtered[i].label],
         data |-> [i \in 1..Len(filtered) |-> filtered[i].value]]

(***************************************************************************)
(* The colour ramps of the choropleth layers and their legends.            *)
(***************************************************************************)
\* a < b of two finite numbers
LessThan(a, b) ==
    LET lo == IF a.e < b.e THEN a.e ELSE b.e
    IN  a.m * Pow(10, a.e - lo) < b.m * Pow(10, b.e - lo)

povertyColor(pct) ==
    IF ~isFinite(pct) THEN "#cccccc"
    ELSE IF LessThan(pct, Fin(10, 0)) THEN "#fee5d9"
    ELSE IF LessThan(pct, Fin(20, 0)) THEN "#fcae91"
    ELSE IF LessThan(pct, Fin(30, 0)) THEN "#fb6a4a"
    ELSE IF LessThan(pct, Fin(40, 0)) THEN "#de2d26"
    ELSE "#a50f15"

incomeColor(income) ==
    IF ~isFinite(income) THEN "#cccccc"
    ELSE IF LessThan(income, Fin(40000, 0)) THEN "#f2f0f7"
    ELSE IF LessThan(income, Fin(60000, 0)) THEN "#cbc9e2"
    ELSE IF LessThan(income, Fin(80000, 0)) THEN "#9e9ac8"
    ELSE IF LessThan(income, Fin(100000, 0)) THEN "#756bb1"
    ELSE "#54278f"

u18Color(pct) ==
    IF ~isFinite(pct) THEN "#cccccc"
    ELSE IF LessThan(pct, Fin(15, 0)) THEN "#fff5eb"
    ELSE IF LessThan(pct, Fin(25, 0)) THEN "#fdd0a2"
    ELSE IF LessThan(pct, Fin(35, 0)) THEN "#fdae6b"
    ELSE IF LessThan(pct, Fin(45, 0)) THEN "#e6550d"
    ELSE "#a63603"

over65Color(pct) ==
    IF ~isFinite(pct) THEN "#cccccc"
    ELSE IF LessThan(pct, Fin(10, 0)) THEN "#edf8e9"
    ELSE IF LessThan(pct, Fin(20, 0)) THEN "#bae4b3"
    ELSE IF LessThan(pct, Fin(30, 0)) THEN "#74c476"
    ELSE IF LessThan(pct, Fin(40, 0)) THEN "#31a354"
    ELSE "#006d2c"

\* the colour function of the named choropleth
ColorOf(name, v) ==
    CASE name = "poverty" -> povertyColor(v)
      [] name = "income" -> incomeColor(v)
      [] name = "u18" -> u18Color(v)
      [] name = "over65" -> over65Color(v)

\* the loop of a legend's onAdd over grades: one swatch per grade, coloured
\* by the named ramp at from + step and labelled "from-to", or "from+"
\* (open) when grades has no next entry
LegendSwatches(grades, name, step) ==
    [i \in 1..Len(grades) |->
        [color |-> ColorOf(name, Add(Fin(grades[i], 0), step)),
         from |-> Fin(grades[i], 0),
         to |-> IF i < Len(grades) THEN Fin(grades[i + 1], 0) ELSE Zero,
         open |-> i = Len(grades)]]

addPovertyLegend == LegendSwatches(<<0, 10, 20, 30>>, "poverty", Fin(1, -2))

addIncomeLegend ==
    LegendSwatches(<<0, 40000, 60000, 80000, 100000>>, "income", Fin(1, 0))

addU18Legend == LegendSwatches(<<0, 15, 25, 35, 45>>, "u18", Fin(1, -2))

addOver65Legend == LegendSwatches(<<0, 10, 20, 30, 40>>, "over65", Fin(1, -2))

(***************************************************************************)
(* State.                                                                  *)
(***************************************************************************)
VARIABLES
    tnIn,       \* toNum: the argument v
    tnOut,      \* toNum: the value returned, Pending before the call
    csvText,    \* parseCSV: the argument text
    csvParsed,  \* parseCSV: TRUE once it has returned
    csvRows,    \* parseCSV: the records returned
    columnMap,      \* the module-level object columnMap
    targetCounty,   \* the module-level Set targetCounty
    rows,           \* computeCategoryTotals: the argument rows
    heap,           \* the totals objects created so far, by identity
    aggPc,          \* computeCategoryTotals: "idle" or "loop"
    aggIdx,         \* the index of the row the loop takes next
    aggObj,         \* the identity of the object the local totals names
    returned,       \* the identities returned by the finished calls
    mainPc,         \* main: "notStarted", "awaitFetch", "awaitText", "done", "rejected"
    cfgIdx,         \* main: the index in chartsConfig of the file being loaded
    fetched,        \* the files fetch was called with, in order
    failed,         \* the files whose fetch, or whose body, did not arrive
    charts,         \* the charts created, in order
    consoleErrors,  \* what console.error was called with
    events,         \* the steps loadAndRenderOne has taken, as <<step, file>>
    consoleLog,     \* what console.log was called with
    layer,          \* povertyLayer, routesLayer, ...: 0 for null, else the layer
    on,             \* povertyOn, routesOn, ...
    legend,         \* povertyLegend, incomeLegend, ...: 0 for null, else the control
    label,          \* the textContent of each toggle button
    mapLayers,      \* the layers of each overlay that are on the map
    mapControls,    \* the legend controls of each overlay that are on the map
    awaiting,       \* the click handlers of each overlay suspended at await build
    built,          \* how many layers each overlay's build function has returned
    rampName,       \* which choropleth's colour function and legend are used
    rampValue,      \* the argument of the colour function
    rampColor,      \* the colour returned, "" before the call
    swatches        \* the swatches the legend's onAdd wrote, <<>> before the call

vars == <<tnIn, tnOut, csvText, csvParsed, csvRows,
          columnMap, targetCounty, rows, heap, aggPc, aggIdx, aggObj, returned,
          mainPc, cfgIdx, fetched, failed, charts, consoleErrors, events, consoleLog,
          layer, on, legend, label, mapLayers, mapControls, awaiting, built,
          rampName, rampValue, rampColor, swatches>>

overlayVars == <<layer, on, legend, label, mapLayers, mapControls, awaiting, built>>
rampVars == <<rampName, rampValue, rampColor, swatches>>
toNumVars == <<tnIn, tnOut>>
parseVars == <<csvText, csvParsed, csvRows>>
configVars == <<columnMap, targetCounty>>
aggVars == <<rows, heap, aggPc, aggIdx, aggObj, returned>>
mainVars == <<mainPc, cfgIdx, fetched, failed, charts, consoleErrors, events,
              consoleLog>>

IdleToNum == tnIn = undefined /\ tnOut = [kind |-> "pending", m |-> 0, e |-> 0]
IdleParse == csvText = <<>> /\ csvParsed = FALSE /\ csvRows = <<>>
InitConfig == columnMap = ColumnMapDecl /\ targetCounty = TargetCountyDecl
IdleAgg ==
    /\ rows = <<>>
    /\ heap = <<>>
    /\ aggPc = "idle"
    /\ aggIdx = 0
    /\ aggObj = 0
    /\ returned = <<>>
IdleMain ==
    /\ mainPc = "notStarted"
    /\ cfgIdx = 0
    /\ fetched = <<>>
    /\ failed = {}
    /\ charts = <<>>
    /\ consoleErrors = <<>>
    /\ events = <<>>
    /\ consoleLog = <<>>

Pending == [kind |-> "pending", m |-> 0, e |-> 0]

(***************************************************************************)
(* The toggleable overlays of the DOMContentLoaded handler.  The variables *)
(* povertyLayer, povertyOn, povertyLegend, ... are functions of the        *)
(* overlay; 0 stands for null.  Every toggle button is taken to be in the  *)
(* page, showing at first the text its own handler writes when it switches *)
(* the overlay off, and the Leaflet calls are taken not to throw.          *)
(***************************************************************************)
\* in the order of the blocks of turnOffAllOverlays
OverlayOrder == <<"poverty", "routes", "income", "u18", "over65", "clients">>

Overlays == {OverlayOrder[i] : i \in 1..Len(OverlayOrder)}

\* the overlays whose handler adds a legend control
WithLegend == {"poverty", "income", "u18", "over65"}

\* the text each click handler writes when it switches its overlay on
HideLabel ==
    [poverty |-> "Hide Poverty Layer", routes |-> "Hide Bus Routes",
     income |-> "Hide Income", u18 |-> "Hide Under 18",
     over65 |-> "Hide Over 65", clients |-> "Hide Partners"]

\* the text each click handler writes when it switches its overlay off
ShowLabel ==
    [poverty |-> "Show Poverty Layer", routes |-> "Show Bus Routes",
     income |-> "Show Income", u18 |-> "Show Under 18",
     over65 |-> "Show Over 65", clients |-> "Show Partners"]

\* the text turnOffAllOverlays writes for each overlay it switches off
ShowLabelOfTurnOffAll ==
    [poverty |-> "Show Poverty Layer", routes |-> "Show Bus Routes",
     income |-> "Show Income", u18 |-> "Show Under 18",
     over65 |-> "Show Over 65", clients |-> "Show Client Pins"]

IdleRamp ==
    /\ rampName = "poverty"
    /\ rampValue = Zero
    /\ rampColor = ""
    /\ swatches = <<>>

IdleOverlays ==
    /\ layer = [o \in Overlays |-> 0]
    /\ on = [o \in Overlays |-> FALSE]
    /\ legend = [o \in Overlays |-> 0]
    /\ label = [o \in Overlays |-> ShowLabel[o]]
    /\ mapLayers = [o \in Overlays |-> {}]
    /\ mapControls = [o \in Overlays |-> {}]
    /\ awaiting = [o \in Overlays |-> 0]
    /\ built = [o \in Overlays |-> 0]

\* the variables the handlers read and write synchronously, as one value
OverlayState ==
    [layer |-> layer, on |-> on, legend |-> legend, label |-> label,
     mapLayers |-> mapLayers, mapControls |-> mapControls]

\* the overlay switched off with its legend control left on the map
SwitchOffKeepingLegend(st, o, text) ==
    [st EXCEPT !.mapLayers[o] = @ \ {st.layer[o]},
               !.on[o] = FALSE,
               !.label[o] = text]

\* map.removeLayer(xLayer); xOn = false; if (xLegend) { map.removeControl(
\* xLegend); xLegend = null; } btn.textContent = text
SwitchOff(st, o, text) ==
    [st EXCEPT !.mapLayers[o] = @ \ {st.layer[o]},
               !.on[o] = FALSE,
               !.mapControls[o] = IF st.legend[o] # 0 THEN @ \ {st.legend[o]} ELSE @,
               !.legend[o] = 0,
               !.label[o] = text]

\* the blocks of turnOffAllOverlays from the i-th on
RECURSIVE TurnOffFrom(_, _)
TurnOffFrom(st, i) ==
    IF i > Len(OverlayOrder) THEN st
    ELSE LET o == OverlayOrder[i]
         IN  TurnOffFrom(IF st.layer[o] # 0 /\ st.on[o]
                         THEN SwitchOff(st, o, ShowLabelOfTurnOffAll[o])
                         ELSE st,
                         i + 1)

turnOffAllOverlays(st) == TurnOffFrom(st, 1)

\* a control the map does not hold yet: the one L.control creates
NewControl(onMap) == CHOOSE c \in 1..(Cardinality(onMap) + 1) : c \notin onMap

\* if (!xLegend) xLegend = addXLegend(map), for the overlays that have one
AddLegend(st, o) ==
    IF o \in WithLegend /\ st.legend[o] = 0
    THEN LET c == NewControl(st.mapControls[o])
         IN  [st EXCEPT !.legend[o] = c, !.mapControls[o] = @ \cup {c}]
    ELSE st

\* xLayer.addTo(map); the legend; btn.textContent = "Hide ..."; xOn = true
SwitchOn(st, o) ==
    LET added == [st EXCEPT !.mapLayers[o] = @ \cup {st.layer[o]}]
    IN  [AddLegend(added, o) EXCEPT !.label[o] = HideLabel[o], !.on[o] = TRUE]

(***************************************************************************)
(* toNum applied to every short string over ToNumAlphabet, to null and     *)
(* undefined and to the longer strings of ToNumExtra.                      *)
(***************************************************************************)
ToNumAlphabet == {"0", "1", "5", ".", "-", "e", "x", "N", "a", " "}

StringsUpTo(alphabet, n) == UNION {[1..k -> alphabet] : k \in 0..n}

ToNumExtra ==
    { <<"N","A">>, <<"n","a">>, <<"n","A">>, <<" ","1","2",".","5"," ">>,
      <<"a","b","c">>, <<"I","n","f","i","n","i","t","y">>,
      <<"-","I","n","f","i","n","i","t","y">>, <<"1","e","9","9","9">>,
      <<"-","1","e","9","9","9">>, <<"0","x","1","A">>, <<"0","b","1","1">>,
      <<"0","o","1","7">>, <<"+","5">>, <<"\t","7","\r","\n">>,
      <<"1","2",".","5","0">>, <<"1","E","2">> }

ToNumInputs == {undefined, null} \cup StringsUpTo(ToNumAlphabet, MaxLen) \cup ToNumExtra

InitToNum ==
    /\ tnIn \in ToNumInputs
    /\ tnOut = Pending
    /\ IdleParse
    /\ InitConfig
    /\ IdleAgg
    /\ IdleMain
    /\ IdleOverlays
    /\ IdleRamp

CallToNum ==
    /\ tnOut = Pending
    /\ tnOut' = toNum(tnIn)
    /\ UNCHANGED tnIn
    /\ UNCHANGED <<parseVars, configVars, aggVars, mainVars, overlayVars, rampVars>>

NextToNum == CallToNum

SpecToNum == InitToNum /\ [][NextToNum]_vars

(***************************************************************************)
(* parseCSV applied to every short text over CsvAlphabet and to the texts  *)
(* of CsvExtra.                                                            *)
(***************************************************************************)
CsvAlphabet == {"a", "b", ",", " ", "\n", "\r"}

CsvExtra ==
    { <<"H","1",",","H","2","\n">>,
      <<"H","1",",","H","2","\r","\n","x",",","y",",","z","\r","\n","\r","\n">>,
      <<"a",","," ","b"," ","\n"," ","1"," ",",","2","\n","3","\n","\n">> }

CsvInputs == StringsUpTo(CsvAlphabet, MaxText) \cup CsvExtra

InitParse ==
    /\ csvText \in CsvInputs
    /\ csvParsed = FALSE
    /\ csvRows = <<>>
    /\ IdleToNum
    /\ InitConfig
    /\ IdleAgg
    /\ IdleMain
    /\ IdleOverlays
    /\ IdleRamp

CallParseCSV ==
    /\ ~csvParsed
    /\ csvRows' = parseCSV(csvText)
    /\ csvParsed' = TRUE
    /\ UNCHANGED csvText
    /\ UNCHANGED <<toNumVars, configVars, aggVars, mainVars, overlayVars, rampVars>>

NextParse == CallParseCSV

SpecParse == InitParse /\ [][NextParse]_vars

(***************************************************************************)
(* computeCategoryTotals called MaxCalls times on one sequence of at most  *)
(* MaxRows records of AggRowSet.  A call is followed statement by          *)
(* statement: the initialisation, one loop iteration per row, the return.  *)
(***************************************************************************)
\* the record with the given County, Proteins LBS and Starch LBS values; a
\* column given as undefined is not a key of the record
RowWith(countyCell, proteinsCell, starchCell) ==
    LET cells == << <<CountyColumn, countyCell>>, <<ProteinsLBS, proteinsCell>>,
                    <<StarchLBS, starchCell>> >>
        present == SelectSeq(cells, LAMBDA c : c[2] # undefined)
    IN  ObjectOf(present, EmptyObject)

RowElk10 == RowWith(<<"E","L","K">>, <<"1","0">>, undefined)
RowXxx999 == RowWith(<<"X","X","X">>, <<"9","9","9">>, undefined)
RowMar5 == RowWith(<<"m","a","r">>, <<"5">>, undefined)
RowPaddedSj == RowWith(<<" ","S","j","\t">>, <<"1","2",".","5">>, <<" ","2"," ">>)
RowNoCounty == RowWith(undefined, <<"7">>, <<"1">>)
RowNoProteins == RowWith(<<"E","L","K">>, undefined, <<"N","A">>)
RowNegative == RowWith(<<"M","A","R">>, <<"-","3">>, <<>>)
RowText == RowWith(<<"e","l","k"," ">>, <<"a","b","c">>, <<"0","x","1","A">>)

AggRowSet == {RowElk10, RowXxx999, RowMar5, RowPaddedSj, RowNoCounty,
              RowNoProteins, RowNegative, RowText}

SpecExampleRows == <<RowElk10, RowXxx999, RowMar5>>

InitAgg ==
    /\ rows \in StringsUpTo(AggRowSet, MaxRows)
    /\ heap = <<>>
    /\ aggPc = "idle"
    /\ aggIdx = 0
    /\ aggObj = 0
    /\ returned = <<>>
    /\ InitConfig
    /\ IdleToNum
    /\ IdleParse
    /\ IdleMain
    /\ IdleOverlays
    /\ IdleRamp

\* one module-level totals object reused by every call
AllocShared(h) == 1

\* const totals = {}: the identity of the object created
Alloc(h) == Len(h) + 1

HeapPut(h, id, obj) ==
    IF id \in DOMAIN h THEN [h EXCEPT ![id] = obj] ELSE Append(h, obj)

\* lines 77-78: totals is created and zeroed
AggCall ==
    /\ aggPc = "idle"
    /\ Len(returned) < MaxCalls
    /\ LET id == Alloc(heap)
           obj == IF id \in DOMAIN heap THEN heap[id] ELSE EmptyObject
       IN  /\ heap' = HeapPut(heap, id, InitTotals(columnMap, obj))
           /\ aggObj' = id
    /\ aggIdx' = 1
    /\ aggPc' = "loop"
    /\ UNCHANGED <<rows, returned, configVars, toNumVars, parseVars, mainVars,
                   overlayVars, rampVars>>

\* lines 80-87: one iteration of the loop over rows
AggRow ==
    /\ aggPc = "loop"
    /\ aggIdx <= Len(rows)
    /\ heap' = [heap EXCEPT ![aggObj] = AddRow(columnMap, targetCounty, @, rows[aggIdx])]
    /\ aggIdx' = aggIdx + 1
    /\ UNCHANGED <<rows, aggPc, aggObj, returned, configVars, toNumVars, parseVars, mainVars,
                   overlayVars, rampVars>>

\* line 89: return totals
AggReturn ==
    /\ aggPc = "loop"
    /\ aggIdx > Len(rows)
    /\ returned' = Append(returned, aggObj)
    /\ aggPc' = "idle"
    /\ UNCHANGED <<rows, heap, aggIdx, aggObj, configVars, toNumVars, parseVars, mainVars,
                   overlayVars, rampVars>>

NextAgg == AggCall \/ AggRow \/ AggReturn

SpecAgg == InitAgg /\ [][NextAgg]_vars

(***************************************************************************)
(* The chart-loading batch: main() over chartsConfig.  Each await is a     *)
(* point where the environment decides the outcome: the fetch resolves     *)
(* with an ok or a non-ok response or rejects, and the body arrives as one *)
(* of the texts of CsvFiles or its read rejects.                           *)
(***************************************************************************)
CsvFiles ==
    { <<"C","o","u","n","t","y",",","P","r","o","t","e","i","n","s"," ","L","B","S",",","S","t","a","r","c","h"," ","L","B","S","\n","E","L","K",",","1","0",",","2","\n","X","X","X",",","9","9","9",",","1","\n","m","a","r",",","5",",","N","A","\n">>,
      <<"C","o","u","n","t","y",",","P","r","o","t","e","i","n","s"," ","L","B","S",",","B","a","k","e","d"," ","G","o","o","d","s"," ","L","B","S","\r","\n"," ","S","J"," ",",","1","2",".","5","\r","\n","s","j",",",",","3",",","e","x","t","r","a","\r","\n">>,
      <<"C","o","u","n","t","y",",","V","e","g"," ","L","B","S","\n","M","A","R",",","a","b","c","\n","e","l","k",",","0","x","1","A","\n">>,
      <<"C","o","u","n","t","y",",","P","r","o","t","e","i","n","s"," ","L","B","S","\n">>,
      <<"C","o","u","n","t","y",",","V","e","g"," ","L","B","S",",","D","a","i","r","y"," ","L","B","S","\n","E","L","K",",","-","3",",","4","\n","M","A","R",",","1",",","0","\n">> }

Init ==
    /\ mainPc = "notStarted"
    /\ cfgIdx = 0
    /\ fetched = <<>>
    /\ failed = {}
    /\ charts = <<>>
    /\ consoleErrors = <<>>
    /\ events = <<>>
    /\ consoleLog = <<>>
    /\ InitConfig
    /\ IdleToNum
    /\ IdleParse
    /\ IdleAgg
    /\ IdleOverlays
    /\ IdleRamp

\* loadAndRenderOne(chartsConfig[i]) up to its first await, or the end of
\* main's loop when i is past the last entry; log is the steps taken so far
LoadFrom(i, log) ==
    IF i <= Len(chartsConfig)
    THEN /\ cfgIdx' = i
         /\ fetched' = Append(fetched, chartsConfig[i].file)
         /\ events' = Append(log, <<"fetch", chartsConfig[i].file>>)
         /\ mainPc' = "awaitFetch"
    ELSE /\ cfgIdx' = i
         /\ fetched' = fetched
         /\ events' = log
         /\ mainPc' = "done"

\* a failed load answered by fetching the same file again
RejectMainRetrying(error) ==
    /\ LoadFrom(cfgIdx, events)
    /\ failed' = failed \cup {chartsConfig[cfgIdx].file}
    /\ consoleErrors' = Append(consoleErrors,
                               [error |-> error, file |-> chartsConfig[cfgIdx].file])
    /\ UNCHANGED <<charts, consoleLog>>

\* the throw leaves loadAndRenderOne and main; the catch of the caller logs
RejectMain(error) ==
    /\ mainPc' = "rejected"
    /\ failed' = failed \cup {chartsConfig[cfgIdx].file}
    /\ consoleErrors' = Append(consoleErrors,
                               [error |-> error, file |-> chartsConfig[cfgIdx].file])
    /\ UNCHANGED <<cfgIdx, fetched, charts, events, consoleLog>>

\* main() is called by the DOMContentLoaded handler
MainStart ==
    /\ mainPc = "notStarted"
    /\ LoadFrom(1, events)
    /\ UNCHANGED <<failed, charts, consoleErrors, consoleLog>>
    /\ UNCHANGED <<toNumVars, parseVars, configVars, aggVars, overlayVars, rampVars>>

\* fetch resolved with res.ok: res.text() is awaited
FetchOk ==
    /\ mainPc = "awaitFetch"
    /\ mainPc' = "awaitText"
    /\ events' = Append(events, <<"ok", chartsConfig[cfgIdx].file>>)
    /\ UNCHANGED <<cfgIdx, fetched, failed, charts, consoleErrors, consoleLog>>
    /\ UNCHANGED <<toNumVars, parseVars, configVars, aggVars, overlayVars, rampVars>>

\* fetch resolved with !res.ok: throw new Error
FetchNotOk ==
    /\ mainPc = "awaitFetch"
    /\ RejectMain("Failed to load")
    /\ UNCHANGED <<toNumVars, parseVars, configVars, aggVars, overlayVars, rampVars>>

\* fetch rejected
FetchRejected ==
    /\ mainPc = "awaitFetch"
    /\ RejectMain("fetch rejected")
    /\ UNCHANGED <<toNumVars, parseVars, configVars, aggVars, overlayVars, rampVars>>

\* res.text() rejected
TextRejected ==
    /\ mainPc = "awaitText"
    /\ RejectMain("text rejected")
    /\ UNCHANGED <<toNumVars, parseVars, configVars, aggVars, overlayVars, rampVars>>

\* lines 135-139: the synchronous steps that follow the arrival of the text
Pipeline(file) == << <<"parse", file>>, <<"aggregate", file>>, <<"render", file>> >>

\* res.text() resolved: parse, total, draw, then the next file
TextArrived ==
    /\ mainPc = "awaitText"
    /\ \E text \in CsvFiles :
         LET cfg == chartsConfig[cfgIdx]
             parsed == parseCSV(text)
             totals == computeCategoryTotals(columnMap, targetCounty, parsed)
         IN  /\ consoleLog' = Append(consoleLog, [file |-> cfg.file, totals |-> totals])
             /\ charts' = Append(charts, drawPieChart(cfg.canvasId, cfg.title, totals))
    /\ LoadFrom(cfgIdx + 1, events \o Pipeline(chartsConfig[cfgIdx].file))
    /\ UNCHANGED <<failed, consoleErrors>>
    /\ UNCHANGED <<toNumVars, parseVars, configVars, aggVars, overlayVars, rampVars>>

Next ==
    \/ MainStart
    \/ FetchOk
    \/ FetchNotOk
    \/ FetchRejected
    \/ TextRejected
    \/ TextArrived

Spec == Init /\ [][Next]_vars

(***************************************************************************)
(* The click handlers of the toggle buttons.  A handler that finds its     *)
(* layer not built yet is suspended at the await of its build function;    *)
(* the environment decides when, and with which outcome, each build ends,  *)
(* and further clicks are handled in between.                              *)
(***************************************************************************)
SetOverlayState(st) ==
    /\ layer' = st.layer
    /\ on' = st.on
    /\ legend' = st.legend
    /\ label' = st.label
    /\ mapLayers' = st.mapLayers
    /\ mapControls' = st.mapControls

\* the builds that returned a layer or are still awaited, over all overlays
BuildsInAll ==
    Cardinality({<<o, k>> \in Overlays \X (1..MaxBuilds) : k <= awaiting[o] + built[o]})

\* a click while the overlay is off and its layer is built: the handler runs
\* to its end
ClickShow(o) ==
    /\ ~on[o]
    /\ LET st == turnOffAllOverlays(OverlayState)
       IN  /\ st.layer[o] # 0
           /\ SetOverlayState(SwitchOn(st, o))
    /\ UNCHANGED <<awaiting, built>>
    /\ UNCHANGED <<toNumVars, parseVars, configVars, aggVars, mainVars, rampVars>>

\* a click while the overlay is off and its layer is null: the handler runs
\* up to await buildXLayer()
ClickShowAwaitingBuild(o) ==
    /\ ~on[o]
    /\ BuildsInAll < MaxBuilds
    /\ LET st == turnOffAllOverlays(OverlayState)
       IN  /\ st.layer[o] = 0
           /\ SetOverlayState(st)
    /\ awaiting' = [awaiting EXCEPT ![o] = @ + 1]
    /\ UNCHANGED built
    /\ UNCHANGED <<toNumVars, parseVars, configVars, aggVars, mainVars, rampVars>>

\* a click while the overlay is on
ClickHide(o) ==
    /\ on[o]
    /\ SetOverlayState(SwitchOff(OverlayState, o, ShowLabel[o]))
    /\ UNCHANGED <<awaiting, built>>
    /\ UNCHANGED <<toNumVars, parseVars, configVars, aggVars, mainVars, rampVars>>

\* the build a handler awaits returned a layer: the handler assigns it and
\* runs to its end
BuildResolved(o) ==
    /\ awaiting[o] > 0
    /\ awaiting' = [awaiting EXCEPT ![o] = @ - 1]
    /\ built' = [built EXCEPT ![o] = @ + 1]
    /\ SetOverlayState(SwitchOn([OverlayState EXCEPT !.layer[o] = built[o] + 1], o))
    /\ UNCHANGED <<toNumVars, parseVars, configVars, aggVars, mainVars, rampVars>>

\* the build a handler awaits threw (the fetch rejected, the response was
\* not ok or its body was not JSON): the handler ends there
BuildFailed(o) ==
    /\ awaiting[o] > 0
    /\ awaiting' = [awaiting EXCEPT ![o] = @ - 1]
    /\ UNCHANGED <<layer, on, legend, label, mapLayers, mapControls, built>>
    /\ UNCHANGED <<toNumVars, parseVars, configVars, aggVars, mainVars, rampVars>>

InitOverlays ==
    /\ IdleOverlays
    /\ IdleRamp
    /\ InitConfig
    /\ IdleToNum
    /\ IdleParse
    /\ IdleAgg
    /\ IdleMain

NextOverlays ==
    \E o \in Overlays :
        \/ ClickShow(o)
        \/ ClickShowAwaitingBuild(o)
        \/ ClickHide(o)
        \/ BuildResolved(o)
        \/ BuildFailed(o)

SpecOverlays == InitOverlays /\ [][NextOverlays]_vars

(***************************************************************************)
(* A colour function applied to one of the numbers of RampInputs, and the  *)
(* legend of the same choropleth generated.                                *)
(***************************************************************************)
Choropleths == {"poverty", "income", "u18", "over65"}

RampInputs ==
    {NaN, Infinity(FALSE), Infinity(TRUE)}
    \cup {Fin(m, 0) : m \in {-5, 0, 5, 10, 12, 15, 20, 25, 30, 35, 40, 45, 50, 100,
                            39999, 40000, 40001, 59999, 60000, 79999, 80000,
                            99999, 100000, 100001, 250000}}
    \cup {Fin(m, -2) : m \in {1, 999, 1001, 1499, 1999, 2001, 2499, 2999, 3001,
                             3499, 3999, 4001, 4499, 4501}}

LegendOf(name) ==
    CASE name = "poverty" -> addPovertyLegend
      [] name = "income" -> addIncomeLegend
      [] name = "u18" -> addU18Legend
      [] name = "over65" -> addOver65Legend

InitRamp ==
    /\ rampName \in Choropleths
    /\ rampValue \in RampInputs
    /\ rampColor = ""
    /\ swatches = <<>>
    /\ InitConfig
    /\ IdleToNum
    /\ IdleParse
    /\ IdleAgg
    /\ IdleMain
    /\ IdleOverlays

\* the style callback colours a tract
CallColor ==
    /\ rampColor = ""
    /\ rampColor' = ColorOf(rampName, rampValue)
    /\ UNCHANGED <<rampName, rampValue, swatches>>
    /\ UNCHANGED <<toNumVars, parseVars, configVars, aggVars, mainVars, overlayVars>>

\* legend.addTo(map) calls legend.onAdd
LegendOnAdd ==
    /\ swatches = <<>>
    /\ swatches' = LegendOf(rampName)
    /\ UNCHANGED <<rampName, rampValue, rampColor>>
    /\ UNCHANGED <<toNumVars, parseVars, configVars, aggVars, mainVars, overlayVars>>

NextRamp == CallColor \/ LegendOnAdd

SpecRamp == InitRamp /\ [][NextRamp]_vars

(***************************************************************************)
(* What the claims say of a string, stated without the operators above.    *)
(***************************************************************************)
\* s without its leading and trailing white space
Core(s) ==
    LET ink == {i \in 1..Len(s) : s[i] \notin WhiteSpace}
    IN  IF ink = {} THEN <<>>
        ELSE SubSeq(s, CHOOSE i \in ink : \A j \in ink : i <= j,
                       CHOOSE i \in ink : \A j \in ink : j <= i)

SameLetter(c, d) ==
    c = d \/ \E i \in 1..Len(LowerLetters) :
                {c, d} = {LowerLetters[i], UpperLetters[i]}

\* s and t differ at most in the case of their letters
SameIgnoringCase(s, t) ==
    Len(s) = Len(t) /\ \A i \in 1..Len(s) : SameLetter(s[i], t[i])

\* null, undefined, blank, or "NA" in any letter case
IsAbsent(v) ==
    \/ v \in {undefined, null}
    \/ Core(v) = <<>>
    \/ SameIgnoringCase(Core(v), <<"N", "A">>)

DigitValue(c) ==
    CASE c = "0" -> 0 [] c = "1" -> 1 [] c = "2" -> 2 [] c = "3" -> 3
      [] c = "4" -> 4 [] c = "5" -> 5 [] c = "6" -> 6 [] c = "7" -> 7
      [] c = "8" -> 8 [] c = "9" -> 9
      [] c \in {"a", "A"} -> 10 [] c \in {"b", "B"} -> 11
      [] c \in {"c", "C"} -> 12 [] c \in {"d", "D"} -> 13
      [] c \in {"e", "E"} -> 14 [] c \in {"f", "F"} -> 15
      [] OTHER -> 99

IsNumeral(base, s) == \A i \in 1..Len(s) : DigitValue(s[i]) < base

\* the numeral s read in the given base, digit by digit from the left
RECURSIVE PositionalValue(_, _)
PositionalValue(base, s) ==
    IF s = <<>> THEN 0
    ELSE DigitValue(Head(s)) * Pow(base, Len(s) - 1) + PositionalValue(base, Tail(s))

\* the ways to cut c into sign, integer digits, point, fraction digits and
\* exponent part (lengths sl, il, dl, fl, el) that make it a decimal numeral
DecimalCuts(c) ==
    {p \in [sl : 0..1, il : 0..Len(c), dl : 0..1, fl : 0..Len(c), el : 0..Len(c)] :
        /\ p.sl + p.il + p.dl + p.fl + p.el = Len(c)
        /\ p.sl = 1 => c[1] \in {"+", "-"}
        /\ IsNumeral(10, SubSeq(c, p.sl + 1, p.sl + p.il))
        /\ p.dl = 1 => c[p.sl + p.il + 1] = "."
        /\ p.dl = 0 => p.fl = 0
        /\ IsNumeral(10, SubSeq(c, p.sl + p.il + p.dl + 1, p.sl + p.il + p.dl + p.fl))
        /\ p.il + p.fl >= 1
        /\ p.el > 0 =>
             LET x == SubSeq(c, Len(c) - p.el + 1, Len(c))
                 d == IF Len(x) >= 2 /\ x[2] \in {"+", "-"}
                      THEN SubSeq(x, 3, Len(x)) ELSE Tail(x)
             IN  x[1] \in {"e", "E"} /\ d # <<>> /\ IsNumeral(10, d)}

IsDecimalNumeral(c) == DecimalCuts(c) # {}

\* the number a decimal numeral denotes (Infinity beyond the double range)
DecimalValue(c) ==
    LET p == CHOOSE q \in DecimalCuts(c) : TRUE
        digits == SubSeq(c, p.sl + 1, p.sl + p.il)
                  \o SubSeq(c, p.sl + p.il + p.dl + 1, p.sl + p.il + p.dl + p.fl)
        x == SubSeq(c, Len(c) - p.el + 1, Len(c))
        xsigned == Len(x) >= 2 /\ x[2] \in {"+", "-"}
        xval == IF p.el = 0 THEN 0
                ELSE PositionalValue(10, IF xsigned THEN SubSeq(x, 3, Len(x)) ELSE Tail(x))
        ex == IF p.el > 0 /\ xsigned /\ x[2] = "-" THEN -xval ELSE xval
    IN  Magnitude(p.sl = 1 /\ c[1] = "-", PositionalValue(10, digits), ex - p.fl)

\* 0x, 0o or 0b followed by at least one digit of that base
RadixOf(c) ==
    IF Len(c) < 3 \/ c[1] # "0" THEN 0
    ELSE CASE c[2] \in {"x", "X"} -> 16
           [] c[2] \in {"o", "O"} -> 8
           [] c[2] \in {"b", "B"} -> 2
           [] OTHER -> 0

IsRadixNumeral(c) == RadixOf(c) # 0 /\ IsNumeral(RadixOf(c), SubSeq(c, 3, Len(c)))

RadixValue(c) == Magnitude(FALSE, PositionalValue(RadixOf(c), SubSeq(c, 3, Len(c))), 0)

(***************************************************************************)
(* Claims about toNum (SpecToNum).                                         *)
(***************************************************************************)
\* C6 as stated: toNum never yields NaN or an infinity; null, undefined, a
\* blank string and "NA" in any case give 0; a string that is a decimal
\* number after trimming gives that number; every other input gives 0.
C6_ToNumDecimalOnly ==
    tnOut # Pending =>
        /\ tnOut.kind = "finite"
        /\ IsAbsent(tnIn) => tnOut = Zero
        /\ (~IsAbsent(tnIn) /\ IsDecimalNumeral(Core(tnIn))
              /\ isFinite(DecimalValue(Core(tnIn))))
             => tnOut = DecimalValue(Core(tnIn))
        /\ (~IsAbsent(tnIn) /\ ~(IsDecimalNumeral(Core(tnIn))
                                   /\ isFinite(DecimalValue(Core(tnIn)))))
             => tnOut = Zero

\* C6 amended: as above, but a 0x, 0o or 0b integer literal also gives its
\* value; 0 is returned for every input that is neither a decimal numeral
\* nor such a literal with a finite value.
C6_ToNumTotal ==
    tnOut # Pending =>
        LET c == Core(StringOrEmpty(tnIn))
            numeric == \/ IsDecimalNumeral(c) /\ isFinite(DecimalValue(c))
                       \/ IsRadixNumeral(c) /\ isFinite(RadixValue(c))
        IN  /\ tnOut.kind = "finite"
            /\ IsAbsent(tnIn) => tnOut = Zero
            /\ (~IsAbsent(tnIn) /\ numeric) =>
                 tnOut = IF IsRadixNumeral(c) THEN RadixValue(c) ELSE DecimalValue(c)
            /\ (~IsAbsent(tnIn) /\ ~numeric) => tnOut = Zero

\* witnesses: a padded decimal is converted, a non-numeric text gives 0
C6_Witness ==
    /\ tnIn = <<" ","1","2",".","5"," ">>
    /\ tnOut = Fin(125, -1)

(***************************************************************************)
(* Claims about parseCSV (SpecParse).                                      *)
(***************************************************************************)
CountOf(s, ch) == Cardinality({i \in 1..Len(s) : s[i] = ch})

\* the index of the k-th ch of s; 0 for k = 0 and Len(s) + 1 past the last
KthPos(s, ch, k) ==
    IF k = 0 THEN 0
    ELSE IF k > CountOf(s, ch) THEN Len(s) + 1
    ELSE CHOOSE i \in 1..Len(s) :
            s[i] = ch /\ Cardinality({j \in 1..i : s[j] = ch}) = k

\* what lies between the (k-1)-th and the k-th ch of s
NthPiece(s, ch, k) == SubSeq(s, KthPos(s, ch, k - 1) + 1, KthPos(s, ch, k) - 1)

\* the k-th line of t: a line ends before \n, or before \r\n
NthLine(t, k) ==
    LET piece == NthPiece(t, "\n", k)
    IN  IF k <= CountOf(t, "\n") /\ piece # <<>> /\ piece[Len(piece)] = "\r"
        THEN SubSeq(piece, 1, Len(piece) - 1) ELSE piece

HeaderLine == NthLine(Core(csvText), 1)
NumHeaders == CountOf(HeaderLine, ",") + 1
HeaderName(i) == Core(NthPiece(HeaderLine, ",", i))
DataLine(k) == NthLine(Core(csvText), k + 1)
NumFields(k) == CountOf(DataLine(k), ",") + 1
\* the trimmed i-th field of data line k, empty when the line is shorter
FieldOrEmpty(k, i) ==
    IF i <= NumFields(k) THEN Core(NthPiece(DataLine(k), ",", i)) ELSE <<>>

\* C4: parseCSV returns one record per line after the header line of the
\* trimmed input (none for header-only input or for trailing newlines), and
\* the keys of every record are exactly the header names.
C4_OneRecordPerDataLine ==
    csvParsed =>
        /\ Len(csvRows) = CountOf(Core(csvText), "\n")
        /\ \A k \in 1..Len(csvRows) :
              /\ Range(csvRows[k].keys) = {HeaderName(i) : i \in 1..NumHeaders}
              /\ DOMAIN csvRows[k].val = Range(csvRows[k].keys)

\* witness of C4: a header-only text with a trailing newline gives no
\* record, and a ragged text gives one record per data line
C4_Witness ==
    /\ csvParsed
    /\ csvText = <<"a",","," ","b"," ","\n"," ","1"," ",",","2","\n","3","\n","\n">>
    /\ Len(csvRows) = 2

\* C8 as stated: the value under the i-th header is the trimmed i-th field
\* of the line, the empty string when the line has no i-th field.
C8_ValueUnderEachHeader ==
    csvParsed =>
        \A k \in 1..Len(csvRows) : \A i \in 1..NumHeaders :
            csvRows[k].val[HeaderName(i)] = FieldOrEmpty(k, i)

\* the last position at which the header line names h
LastHeaderIndex(h) ==
    CHOOSE i \in 1..NumHeaders :
        HeaderName(i) = h /\ \A j \in (i + 1)..NumHeaders : HeaderName(j) # h

\* C8 amended: the value under a header name is the trimmed field at the
\* last position where the header line has that name (the i-th field for
\* the i-th header when the names are distinct), the empty string when the
\* line has no such field; a field beyond the header count is under no key.
C8_ValueUnderLastHeader ==
    csvParsed =>
        \A k \in 1..Len(csvRows) : \A h \in Range(csvRows[k].keys) :
            csvRows[k].val[h] = FieldOrEmpty(k, LastHeaderIndex(h))

\* witness of C8: a line with fewer fields than headers
C8_Witness ==
    /\ csvParsed
    /\ csvText = <<"a",",","b","\n","b">>
    /\ csvRows = <<[keys |-> <<<<"a">>, <<"b">>>>,
                    val |-> [h \in {<<"a">>, <<"b">>} |->
                                IF h = <<"a">> THEN <<"b">> ELSE <<>>]]>>

(***************************************************************************)
(* Claims about computeCategoryTotals (SpecAgg).                           *)
(***************************************************************************)
Categories == {en[1] : en \in Range(ColumnMapEntries)}
ColumnOf(category) ==
    (CHOOSE en \in Range(ColumnMapEntries) : en[1] = category)[2]

\* the County value of a record, the empty string when it has no such key
CountyOf(row) ==
    IF CountyColumn \in Range(row.keys) THEN row.val[CountyColumn] ELSE <<>>

\* the County value is an accepted code up to letter case and surrounding
\* white space
IsAcceptedRow(row) ==
    \E code \in {<<"E","L","K">>, <<"M","A","R">>, <<"S","J">>} :
        SameIgnoringCase(Core(CountyOf(row)), code)

\* what a record contributes to a column: 0 when it lacks the column
Contribution(row, column) ==
    IF column \in Range(row.keys) THEN toNum(row.val[column]) ELSE Zero

RECURSIVE SumOfContributions(_, _)
SumOfContributions(indices, column) ==
    IF indices = {} THEN Zero
    ELSE LET i == CHOOSE x \in indices : TRUE
         IN  Add(Contribution(rows[i], column),
                 SumOfContributions(indices \ {i}, column))

AcceptedIndices == {i \in 1..Len(rows) : IsAcceptedRow(rows[i])}

Result(n) == heap[returned[n]]

\* C1: each total returned for a category is the sum, over exactly the rows
\* whose normalized County is accepted, of toNum of the row's value in the
\* category's column; a row without the column contributes 0.
C1_TotalsAreSums ==
    \A n \in 1..Len(returned) : \A c \in Categories :
        Result(n).val[c] = SumOfContributions(AcceptedIndices, ColumnOf(c))

\* witness of C1: a call returned sums to which a padded lower-case county
\* and a row without the column contributed
C1_Witness ==
    /\ rows = <<RowPaddedSj, RowNoProteins, RowElk10>>
    /\ Len(returned) = 1
    /\ Result(1).val[proteins] = Fin(225, -1)
    /\ Result(1).val[starch] = Fin(2, 0)

LoopAtRow == aggPc = "loop" /\ aggIdx <= Len(rows)

\* C2: a row whose normalized County is not ELK, MAR or SJ, a row with no
\* County key included, leaves every total as it was.
C2_RejectedRowChangesNothing ==
    [][(LoopAtRow /\ ~IsAcceptedRow(rows[aggIdx])) => heap' = heap]_vars

\* witness of C2: the loop has passed a row with no County key and a row of
\* another county, after an accepted one
C2_Witness ==
    /\ rows = <<RowElk10, RowNoCounty, RowXxx999>>
    /\ aggPc = "loop"
    /\ aggIdx = 4
    /\ heap[aggObj].val[proteins] = Fin(10, 0)

\* C5: the result has exactly one entry per key of the category mapping,
\* the 8 declared categories, whatever the rows; without accepted rows
\* every category is present with the value 0.
C5_OneEntryPerCategory ==
    \A n \in 1..Len(returned) :
        /\ Len(Result(n).keys) = 8
        /\ Range(Result(n).keys) = Categories
        /\ DOMAIN Result(n).val = Categories
        /\ AcceptedIndices = {} => \A c \in Categories : Result(n).val[c] = Zero

\* witness of C5: a call on rows none of which is accepted has returned
C5_Witness ==
    /\ rows = <<RowXxx999, RowNoCounty>>
    /\ Len(returned) = 1
    /\ Cardinality(Range(Result(1).keys)) = 8

\* C7: a row whose County is an accepted code up to letter case and
\* surrounding white space adds toNum of each of its category cells to the
\* totals, as the canonical code would; the rows ELK:10, XXX:999, mar:5
\* give proteins = 15 and 0 elsewhere.
C7_CountyCaseAndSpaceInsensitive ==
    /\ [][(LoopAtRow /\ IsAcceptedRow(rows[aggIdx])) =>
             \A c \in Categories :
                heap'[aggObj].val[c] =
                    Add(heap[aggObj].val[c], Contribution(rows[aggIdx], ColumnOf(c)))]_vars
    /\ [](rows = SpecExampleRows =>
             \A n \in 1..Len(returned) : \A c \in Categories :
                Result(n).val[c] = IF c = proteins THEN Fin(15, 0) ELSE Zero)

\* witness of C7: the example of the specification has been totalled
C7_Witness ==
    /\ rows = SpecExampleRows
    /\ Len(returned) = 1
    /\ Result(1).val[proteins] = Fin(15, 0)

\* C9 as stated: every total returned is non-negative.
C9_TotalsNonNegative ==
    \A n \in 1..Len(returned) : \A c \in Categories : Result(n).val[c].m >= 0

\* C9 amended: every total returned is non-negative when no accepted row
\* holds a negative number in a category column.
C9_TotalsNonNegativeForNonNegativeCells ==
    (\A i \in AcceptedIndices : \A c \in Categories :
        Contribution(rows[i], ColumnOf(c)).m >= 0)
    => \A n \in 1..Len(returned) : \A c \in Categories : Result(n).val[c].m >= 0

\* witness of C9: a positive total was returned for rows without negatives
C9_Witness ==
    /\ rows = <<RowMar5, RowText>>
    /\ Len(returned) = 1
    /\ Result(1).val[proteins] = Fin(5, 0)
    /\ Result(1).val[starch] = Fin(26, 0)

\* C10: two calls on the same rows return equal totals, each call returns
\* an object of its own, and no step of a call changes the rows, columnMap
\* or targetCounty.
C10_Pure ==
    /\ [](\A i, j \in 1..Len(returned) :
             /\ Result(i) = Result(j)
             /\ i # j => returned[i] # returned[j])
    /\ [][rows' = rows /\ columnMap' = columnMap /\ targetCounty' = targetCounty]_vars

\* witness of C10: the second call on the same rows has returned
C10_Witness ==
    /\ rows = <<RowElk10, RowNegative>>
    /\ Len(returned) = 2
    /\ returned[1] # returned[2]
    /\ Result(2).val[proteins] = Fin(7, 0)

\* the category keys in the order columnMap declares them
DeclarationOrder ==
    << <<"p","r","o","t","e","i","n","s">>, <<"s","t","a","r","c","h">>,
       <<"v","e","g">>, <<"f","r","u","i","t">>,
       <<"b","a","k","e","d","_","g","o","o","d","s">>, <<"d","a","i","r","y">>,
       <<"g","r","o","c","e","r","y">>,
       <<"i","n","d","i","v","i","d","u","a","l","_","m","e","a","l","_","l","b","s">> >>

\* C11: the keys of the object computeCategoryTotals returns are in the
\* declaration order of columnMap (proteins, starch, veg, fruit,
\* baked_goods, dairy, grocery, individual_meal_lbs), whatever the rows are;
\* while the loop runs the order is already that one.
C11_KeysInDeclarationOrder ==
    /\ \A n \in 1..Len(returned) : Result(n).keys = DeclarationOrder
    /\ aggPc = "loop" => heap[aggObj].keys = DeclarationOrder

\* witness of C11: a call whose rows name starch before proteins and add to
\* both has returned
C11_Witness ==
    /\ rows = <<RowPaddedSj, RowNoProteins, RowElk10>>
    /\ Len(returned) = 1
    /\ Result(1).keys = DeclarationOrder
    /\ Result(1).val[starch] = Fin(2, 0)
    /\ Result(1).val[proteins] = Fin(225, -1)

(***************************************************************************)
(* Claims about the chart-loading batch (Spec).                            *)
(***************************************************************************)
BatchOver == mainPc \in {"done", "rejected"}

HasChart(i) == \E n \in 1..Len(charts) : charts[n].canvasId = chartsConfig[i].canvasId

\* C3: when the fetch of one CSV file fails, every other file of the batch
\* is still fetched and rendered: once the batch is over, each file whose
\* load did not fail has been fetched and has its chart.
C3_FailureDoesNotStopBatch ==
    BatchOver =>
        \A i \in 1..Len(chartsConfig) :
            chartsConfig[i].file \notin failed =>
                /\ chartsConfig[i].file \in Range(fetched)
                /\ HasChart(i)

\* the positions of the log at which the given step was taken for the file
StepsOf(step, file) == {i \in 1..Len(events) : events[i] = <<step, file>>}

ConfiguredFiles == {chartsConfig[i].file : i \in 1..Len(chartsConfig)}

\* C12: each configured file is fetched at most once, a failed fetch never
\* being retried; a file is parsed, aggregated and rendered only after its
\* fetch resolved with an ok response, in the order parse, aggregate,
\* render, each at most once; a file whose load failed is never parsed or
\* rendered, and there are as many charts as render steps.
C12_OneFetchThenParseAggregateRender ==
    /\ \A f \in ConfiguredFiles :
         /\ Cardinality(StepsOf("fetch", f)) <= 1
         /\ Cardinality({i \in 1..Len(fetched) : fetched[i] = f}) <= 1
         /\ Cardinality(StepsOf("parse", f)) <= 1
         /\ \A i \in StepsOf("parse", f) :
              \E j \in StepsOf("ok", f) : \E k \in StepsOf("fetch", f) : k < j /\ j < i
         /\ StepsOf("aggregate", f) = {i + 1 : i \in StepsOf("parse", f)}
         /\ StepsOf("render", f) = {i + 2 : i \in StepsOf("parse", f)}
         /\ f \in failed =>
              StepsOf("parse", f) = {} /\ StepsOf("render", f) = {}
    /\ Len(charts) = Cardinality({i \in 1..Len(events) : events[i][1] = "render"})

\* witness of C12: the first file was parsed, aggregated and rendered, and
\* the load of the second failed
C12_Witness ==
    /\ mainPc = "rejected"
    /\ failed = {chartsConfig[2].file}
    /\ StepsOf("render", chartsConfig[1].file) = {5}
    /\ Len(charts) = 1

\* the label the claims give to each category key, in the order of
\* DeclarationOrder
DisplayLabels ==
    << <<"P","R","O","T","E","I","N","S">>, <<"S","T","A","R","C","H">>,
       <<"V","E","G">>, <<"F","R","U","I","T">>,
       <<"B","A","K","E","D"," ","G","O","O","D","S">>, <<"D","A","I","R","Y">>,
       <<"G","R","O","C","E","R","Y">>,
       <<"I","N","D","I","V","I","D","U","A","L"," ","M","E","A","L"," ","L","B","S">> >>

\* the positions, in the order of the totals mapping, of the categories
\* whose total is not zero
NonZeroPositions(totals) ==
    SelectSeq([i \in 1..Len(totals.keys) |-> i],
              LAMBDA i : totals.val[totals.keys[i]] # Zero)

\* C13: the chart drawn from a totals mapping shows exactly the categories
\* whose total is not zero, in the order of the mapping, each under its key
\* with underscores replaced by spaces and upper-cased, with its total as
\* the value.
C13_ChartShowsExactlyNonZeroTotals ==
    /\ Len(charts) = Len(consoleLog)
    /\ \A n \in 1..Len(charts) :
         LET totals == consoleLog[n].totals
             shown == NonZeroPositions(totals)
         IN  /\ totals.keys = DeclarationOrder
             /\ charts[n].labels = [k \in 1..Len(shown) |-> DisplayLabels[shown[k]]]
             /\ charts[n].data = [k \in 1..Len(shown) |-> totals.val[totals.keys[shown[k]]]]

(***************************************************************************)
(* Claims about the toggleable overlays (SpecOverlays).                    *)
(***************************************************************************)
\* C14: at most one toggleable overlay is on at a time, clicks that arrive
\* while an earlier click's build is awaited included: no two overlay flags
\* are true and no two overlays have a layer on the map.
C14_AtMostOneOverlayOn ==
    /\ Cardinality({o \in Overlays : on[o]}) <= 1
    /\ Cardinality({o \in Overlays : mapLayers[o] # {}}) <= 1

\* C15: each overlay's layer is built at most once, and whenever an
\* overlay's flag is off none of its layers is on the map.
C15_BuiltOnceAndRemovable ==
    \A o \in Overlays :
        /\ built[o] <= 1
        /\ ~on[o] => mapLayers[o] = {}

\* C16: for the poverty, income, under-18 and over-65 overlays, the map
\* holds a legend control of the overlay exactly when the overlay's flag is
\* on, and never more than one, whoever switched the overlay off; the
\* variable names the control on the map, or is null.
C16_LegendOnMapIffOverlayOn ==
    \A o \in WithLegend :
        /\ Cardinality(mapControls[o]) <= 1
        /\ mapControls[o] # {} <=> on[o]
        /\ mapControls[o] = {legend[o]} \ {0}

\* witness of C16: the poverty overlay, built twice by two clicks during
\* the first build, was switched on with its legend and then switched off
\* by turnOffAllOverlays when the income overlay was clicked; the income
\* overlay is on with its legend
C16_Witness ==
    /\ built["poverty"] = 2
    /\ ~on["poverty"] /\ mapControls["poverty"] = {}
    /\ on["income"] /\ Cardinality(mapControls["income"]) = 1

\* C17: the text of each toggle button is determined by the state of its
\* overlay: its one "Show ..." text while the overlay is off, its
\* "Hide ..." text while it is on, whoever switched the overlay off.
C17_LabelFollowsOverlayState ==
    \A o \in Overlays :
        label[o] = IF on[o] THEN HideLabel[o] ELSE ShowLabel[o]

(***************************************************************************)
(* Claims about the colour ramps and their legends (SpecRamp).             *)
(***************************************************************************)
\* the values a percentage or an income can take among the enumerated ones
DataValues == {v \in RampInputs : isFinite(v) /\ v.m >= 0}

\* v lies in the range the swatch's label states
InLabelledRange(sw, v) ==
    /\ ~LessThan(v, sw.from)
    /\ sw.open \/ LessThan(v, sw.to)

\* C18: a generated legend shows every colour its ramp can give to a finite
\* value and no other: the set of its swatch colours is the set of colours
\* the colour function returns over the finite inputs, and the range
\* written next to a swatch is the range of data values that get the
\* swatch's colour.
C18_LegendShowsWholeRamp ==
    swatches # <<>> =>
        /\ {swatches[i].color : i \in 1..Len(swatches)}
             = {ColorOf(rampName, v) : v \in {w \in RampInputs : isFinite(w)}}
        /\ \A i \in 1..Len(swatches) : \A v \in DataValues :
             ColorOf(rampName, v) = swatches[i].color <=> InLabelledRange(swatches[i], v)

====
